---- MODULE Spec2Model ----
(***************************************************************************)
(* Model of src/src/converters/xml.js (DocbookConverter).                  *)
(*                                                                         *)
(* An HTML string is modelled by the forest cheerio parses it to: a        *)
(* sequence of nodes, each a record                                        *)
(*   [n, tag, cls, id, text, kids]                                         *)
(* where tag = "#text" marks a text node (its characters in text), id = "" *)
(* is an absent id attribute, cls = "" an absent class attribute, and n is *)
(* the position of the element in the source text (an identity that lets   *)
(* the properties tell a moved element from a duplicated one; the code     *)
(* never reads it).  cheerio.load is taken to parse a fragment as it is    *)
(* written (htmlparser2), and every element to carry at most one class.    *)
(***************************************************************************)
EXTENDS Integers, Sequences, FiniteSets, TLC

VARIABLES
    pc,         \* position in the running method
    src,        \* the document the run started from (never written)
    html,       \* this._html
    htmlSet,    \* whether this._html has been assigned by toHTML
    toc,        \* the list items of div.toc > ul.toc, in document order
    chap,       \* every Chapter object created so far
    stack,      \* the active parseList calls, innermost last
    chapters,   \* this.chapters (0 is the Readme, k > 0 is chap[k])
    readme,     \* the Readme's content
    order,      \* the chapters in the order extractHTML was called for them
    promise,    \* state of the deferred d of toHTML
    exitCode,   \* exit code xsltproc closes with
    file        \* what fs.readFile finds at the output path

vars == <<pc, src, html, htmlSet, toc, chap, stack, chapters, readme, order,
          promise, exitCode, file>>

----------------------------------------------------------------------------
(* Bounds *)

MaxNodes == 3
MaxToc == 3
MaxTotal == 5

DocIds == {"", "a", "b"}
TocFrags == {"", "a", "b"}

----------------------------------------------------------------------------
(* DOM *)

Node(n, tag, cls, id, text, kids) ==
    [n |-> n, tag |-> tag, cls |-> cls, id |-> id, text |-> text, kids |-> kids]

\* a text node; its text is a sequence of characters
Text(n, s) == Node(n, "#text", "", "", s, <<>>)

Headers == {"h1", "h2", "h3", "h4", "h5", "h6"}

\* A selector is a set of alternatives [tag, cls, byId, id]; tag "*" and
\* cls "" match anything, tag ":header" matches h1..h6.
Sel(tag, cls) == {[tag |-> tag, cls |-> cls, byId |-> FALSE, id |-> ""]}

Matches(x, S) ==
    /\ x.tag # "#text"
    /\ \E s \in S :
        /\ \/ s.tag = "*"
           \/ s.tag = x.tag
           \/ s.tag = ":header" /\ x.tag \in Headers
        /\ s.cls = "" \/ s.cls = x.cls
        /\ s.byId => (x.id # "" /\ x.id = s.id)

\* $(selector): the matching elements in document order
RECURSIVE Select(_, _)
Select(f, S) ==
    IF f = <<>> THEN <<>>
    ELSE LET x == Head(f) IN
         (IF Matches(x, S) THEN <<x>> ELSE <<>>)
            \o Select(x.kids, S) \o Select(Tail(f), S)

\* $(selector).remove(): the forest without the matching elements
RECURSIVE Remove(_, _)
Remove(f, S) ==
    IF f = <<>> THEN <<>>
    ELSE LET x == Head(f) IN
         (IF Matches(x, S) THEN <<>>
          ELSE <<[x EXCEPT !.kids = Remove(x.kids, S)]>>)
            \o Remove(Tail(f), S)

\* every node of a forest, in document order
RECURSIVE Elements(_)
Elements(f) ==
    IF f = <<>> THEN <<>>
    ELSE <<Head(f)>> \o Elements(Head(f).kids) \o Elements(Tail(f))

\* paths (child indexes from the root) of the matching elements
RECURSIVE PathsFrom(_, _, _, _)
PathsFrom(f, i, S, prefix) ==
    IF i > Len(f) THEN <<>>
    ELSE LET p == Append(prefix, i) IN
         (IF Matches(f[i], S) THEN <<p>> ELSE <<>>)
            \o PathsFrom(f[i].kids, 1, S, p) \o PathsFrom(f, i + 1, S, prefix)

RECURSIVE NodeAt(_, _)
NodeAt(f, p) ==
    IF Len(p) = 1 THEN f[p[1]] ELSE NodeAt(f[p[1]].kids, Tail(p))

RECURSIVE SetIdAt(_, _, _)
SetIdAt(f, p, id) ==
    IF Len(p) = 1 THEN [f EXCEPT ![p[1]].id = id]
    ELSE [f EXCEPT ![p[1]].kids = SetIdAt(f[p[1]].kids, Tail(p), id)]

RECURSIVE ReplaceAt(_, _, _)
ReplaceAt(f, p, x) ==
    IF Len(p) = 1 THEN [f EXCEPT ![p[1]] = x]
    ELSE [f EXCEPT ![p[1]].kids = ReplaceAt(f[p[1]].kids, Tail(p), x)]

RECURSIVE RemoveAt(_, _)
RemoveAt(f, p) ==
    IF Len(p) = 1
    THEN SubSeq(f, 1, p[1] - 1) \o SubSeq(f, p[1] + 1, Len(f))
    ELSE [f EXCEPT ![p[1]].kids = RemoveAt(f[p[1]].kids, Tail(p))]

IsPrefix(r, q) == Len(r) <= Len(q) /\ SubSeq(q, 1, Len(r)) = r

\* the path of a node outside the subtree at r once that subtree is removed
Shift(q, r) ==
    IF /\ Len(q) >= Len(r)
       /\ SubSeq(q, 1, Len(r) - 1) = SubSeq(r, 1, Len(r) - 1)
       /\ q[Len(r)] > r[Len(r)]
    THEN [q EXCEPT ![Len(r)] = @ - 1]
    ELSE q

\* $.html() read back by cheerio.load: adjacent text nodes are one text
\* node, an empty text node is none
RECURSIVE Html(_)
Html(f) ==
    IF f = <<>> THEN <<>>
    ELSE LET x == Head(f)
             rest == Html(Tail(f))
         IN IF x.tag = "#text"
            THEN IF x.text = <<>> THEN rest
                 ELSE IF rest # <<>> /\ rest[1].tag = "#text"
                      THEN <<[x EXCEPT !.text = x.text \o rest[1].text]>> \o Tail(rest)
                      ELSE <<x>> \o rest
            ELSE <<[x EXCEPT !.kids = Html(x.kids)]>> \o rest

----------------------------------------------------------------------------
(* Input documents: every forest of at most MaxNodes elements, given by the *)
(* depth of each element in document order.                                 *)

DepthSeqs(n) ==
    {d \in [1..n -> 0..(n - 1)] :
        /\ n > 0 => d[1] = 0
        /\ \A i \in 2..n : d[i] <= d[i - 1] + 1}

NextSibling(d, lo, hi, dep) ==
    LET c == {j \in (lo + 1)..hi : d[j] <= dep}
    IN IF c = {} THEN hi + 1 ELSE CHOOSE j \in c : \A k \in c : j <= k

RECURSIVE Build(_, _, _, _, _, _)
Build(d, tags, ids, lo, hi, dep) ==
    IF lo > hi THEN <<>>
    ELSE LET nxt == NextSibling(d, lo, hi, dep) IN
         <<Node(lo, tags[lo], "", ids[lo], <<>>,
                Build(d, tags, ids, lo + 1, nxt - 1, dep + 1))>>
            \o Build(d, tags, ids, nxt, hi, dep)

Forests(max, Tags, Ids) ==
    UNION {{Build(d, t, i, 1, n, 0) :
                d \in DepthSeqs(n), t \in [1..n -> Tags], i \in [1..n -> Ids]} :
           n \in 0..max}

\* the div.toc element of the document; its list is held in toc
TocDiv == Node(0, "div", "toc", "", <<>>, <<>>)

NoHref == [present |-> FALSE, frag |-> ""]
Hrefs == {NoHref} \cup {[present |-> TRUE, frag |-> x] : x \in TocFrags \ {""}}

\* the <li> elements in document order: depth in the nested lists, link href
Tocs(max) ==
    UNION {{[k \in 1..n |-> [depth |-> d[k], href |-> h[k]]] :
                d \in DepthSeqs(n), h \in [1..n -> Hrefs]} :
           n \in 0..max}

----------------------------------------------------------------------------
(* The table of contents *)

\* $ul.children('li') for the top list, $li.children('ul').children('li') below
RECURSIVE ItemsFrom(_, _, _)
ItemsFrom(t, j, dep) ==
    IF j > Len(t) \/ t[j].depth < dep THEN <<>>
    ELSE (IF t[j].depth = dep THEN <<j>> ELSE <<>>) \o ItemsFrom(t, j + 1, dep)

TopItems(h, t) == IF Select(h, Sel("div", "toc")) = <<>> THEN <<>> ELSE ItemsFrom(t, 1, 0)

SubItems(t, li) == ItemsFrom(t, li + 1, t[li].depth + 1)

\* utils.idFromRef: the fragment of the href; an absent href gives the empty id
IdFromRef(href) == IF href.present THEN href.frag ELSE ""

ExtractTOCTitleInfo(t, li) == [titleId |-> IdFromRef(t[li].href)]

GetChapterSelector(titleInfo) ==
    {[tag |-> "*", cls |-> "", byId |-> TRUE, id |-> titleInfo.titleId]}

----------------------------------------------------------------------------
(* Chapters *)

\* new Chapter(): no children, no content, no siblings
NewChapter(li) ==
    [li |-> li, level |-> 0, parent |-> 0, titleId |-> "", num |-> 0,
     children |-> <<>>, content |-> <<>>, previous |-> 0, next |-> 0]

\* extractHTML taking and removing only the first element of the selection
ExtractHTMLFirstOnly(h, selector) ==
    LET ps == PathsFrom(h, 1, selector, <<>>) IN
    IF ps = <<>> THEN [content |-> <<>>, html |-> h]
    ELSE [content |-> <<NodeAt(h, Head(ps))>>, html |-> Html(RemoveAt(h, Head(ps)))]

\* extractHTML rendering an empty selection as $.html() renders no argument
ExtractHTMLWholeOnMiss(h, selector) ==
    [content |-> IF Select(h, selector) = <<>> THEN h ELSE Select(h, selector),
     html |-> Html(Remove(h, selector))]

\* extractHTML(selector): the outer HTML of the selection, and this._html
\* with the selection removed
ExtractHTML(h, selector) ==
    [content |-> Select(h, selector), html |-> Html(Remove(h, selector))]

\* "Set siblings" with the bound of next off by one
SetSiblingsShort(ch, list) ==
    [c \in DOMAIN ch |->
        IF \E i \in DOMAIN list : list[i] = c
        THEN LET index == CHOOSE i \in DOMAIN list : list[i] = c IN
             [ch[c] EXCEPT
                !.previous = IF index > 1 THEN list[index - 1] ELSE @,
                !.next = IF index + 1 < Len(list) THEN list[index + 1] ELSE @]
        ELSE ch[c]]

\* parseList, "Set siblings"
SetSiblings(ch, list) ==
    [c \in DOMAIN ch |->
        IF \E i \in DOMAIN list : list[i] = c
        THEN LET index == CHOOSE i \in DOMAIN list : list[i] = c IN
             [ch[c] EXCEPT
                !.previous = IF index > 1 THEN list[index - 1] ELSE @,
                !.next = IF index + 1 <= Len(list) THEN list[index + 1] ELSE @]
        ELSE ch[c]]

RECURSIVE DeepOf(_, _)
DeepOf(ch, kids) ==
    IF kids = <<>> THEN <<>>
    ELSE <<Head(kids)>> \o DeepOf(ch, ch[Head(kids)].children)
            \o DeepOf(ch, Tail(kids))

\* Chapter.getChildrenDeep(): the descendants, each followed by its own
GetChildrenDeep(ch, c) == DeepOf(ch, ch[c].children)

\* the flattening without the descendants
FlattenTopOnly(ch, list) == list

\* parseChapters, "Flatten list of chapters"
RECURSIVE FlattenChapters(_, _)
FlattenChapters(ch, list) ==
    IF list = <<>> THEN <<>>
    ELSE (<<Head(list)>> \o GetChildrenDeep(ch, Head(list)))
            \o FlattenChapters(ch, Tail(list))

\* this.documentTitle
DocumentTitle == <<"T">>

\* Readme.addTitleToContent(): the title, as a heading, before the content
AddTitleToContent(content, title) ==
    <<Node(0, "h1", "", "", <<>>, <<Text(0, title)>>)>> \o content

\* parseChapters, this.chapters.unshift(readme)
Unshift(list, r) == <<r>> \o list

\* setTitlesId for one <section> of a chapter's content
SectionStep(f, p) ==
    LET section == NodeAt(f, p)
        hs == PathsFrom(section.kids, 1, Sel(":header", ""), p)
    IN IF section.id = "" THEN f
       ELSE IF hs = <<>> THEN SetIdAt(f, p, "")
       ELSE IF NodeAt(f, Head(hs)).id = ""
            THEN SetIdAt(SetIdAt(f, Head(hs), section.id), p, "")
       ELSE f

RECURSIVE SectionLoop(_, _)
SectionLoop(f, ps) ==
    IF ps = <<>> THEN f ELSE SectionLoop(SectionStep(f, Head(ps)), Tail(ps))

\* setTitlesId for one chapter's content
SetTitlesIdOf(f) == Html(SectionLoop(f, PathsFrom(f, 1, Sel("section", ""), <<>>)))

----------------------------------------------------------------------------
(* parseChapters *)

Top == stack[Len(stack)]

Frame(items, level, parent) ==
    [items |-> items, i |-> 1, chapters |-> <<>>, level |-> level,
     parent |-> parent, cur |-> 0]

\* lines 69-82: drop div.toc from this._html, call parseList on its list
ParseChaptersBegin ==
    /\ pc = "parseChapters"
    /\ html' = Html(Remove(html, Sel("div", "toc")))
    /\ chapters' = <<>>
    /\ stack' = <<Frame(TopItems(html, toc), 0, 0)>>
    /\ pc' = "each"
    /\ UNCHANGED <<src, htmlSet, toc, chap, readme, order, promise, exitCode, file>>

\* lines 118-133: the .each callback up to the recursive call
ParseListItem ==
    /\ pc = "each"
    /\ Top.i <= Len(Top.items)
    /\ LET li == Top.items[Top.i]
           c == Len(chap) + 1
           chapter == [NewChapter(li) EXCEPT
                          !.level = Top.level,
                          !.parent = Top.parent,
                          !.titleId = ExtractTOCTitleInfo(toc, li).titleId,
                          !.num = Len(Top.chapters) + 1]
       IN /\ chap' = Append(chap, chapter)
          /\ stack' = Append([stack EXCEPT ![Len(stack)].cur = c],
                             Frame(SubItems(toc, li), Top.level + 1, c))
    /\ UNCHANGED <<pc, src, html, htmlSet, toc, chapters, readme, order,
                   promise, exitCode, file>>

\* lines 142-155, and the assignments that receive the returned list
\* (line 133 in a callback, line 82 in parseChapters)
ParseListReturn ==
    /\ pc = "each"
    /\ Top.i > Len(Top.items)
    /\ LET linked == SetSiblings(chap, Top.chapters) IN
       IF Len(stack) > 1
       THEN /\ chap' = [linked EXCEPT ![Top.parent].children = Top.chapters]
            /\ pc' = "extract"
            /\ UNCHANGED chapters
       ELSE /\ chap' = linked
            /\ chapters' = Top.chapters
            /\ pc' = "flatten"
    /\ stack' = SubSeq(stack, 1, Len(stack) - 1)
    /\ UNCHANGED <<src, html, htmlSet, toc, readme, order, promise, exitCode, file>>

\* lines 135-139: extract the chapter's HTML, push the chapter
ParseListExtract ==
    /\ pc = "extract"
    /\ LET c == Top.cur
           r == ExtractHTML(html, GetChapterSelector(chap[c]))
       IN /\ chap' = [chap EXCEPT ![c].content = r.content]
          /\ html' = r.html
          /\ stack' = [stack EXCEPT ![Len(stack)].chapters = Append(@, c),
                                    ![Len(stack)].i = @ + 1]
          /\ order' = Append(order, c)
    /\ pc' = "each"
    /\ UNCHANGED <<src, htmlSet, toc, chapters, readme, promise, exitCode, file>>

\* lines 84-88
ParseChaptersFlatten ==
    /\ pc = "flatten"
    /\ chapters' = FlattenChapters(chap, chapters)
    /\ pc' = "readme"
    /\ UNCHANGED <<src, html, htmlSet, toc, chap, stack, readme, order,
                   promise, exitCode, file>>

\* lines 93-98 (the filenames of line 91 are not part of the state)
ParseChaptersReadme ==
    /\ pc = "readme"
    /\ readme' = AddTitleToContent(html, DocumentTitle)
    /\ chapters' = Unshift(chapters, 0)
    /\ pc' = "setTitlesId"
    /\ UNCHANGED <<src, html, htmlSet, toc, chap, stack, order, promise, exitCode, file>>

\* line 99 and lines 180-203
SetTitlesId ==
    /\ pc = "setTitlesId"
    /\ chap' = [c \in DOMAIN chap |->
                   IF \E i \in DOMAIN chapters : chapters[i] = c
                   THEN [chap[c] EXCEPT !.content = SetTitlesIdOf(@)]
                   ELSE chap[c]]
    /\ readme' = IF \E i \in DOMAIN chapters : chapters[i] = 0
                 THEN SetTitlesIdOf(readme) ELSE readme
    /\ pc' = "done"
    /\ UNCHANGED <<src, html, htmlSet, toc, stack, chapters, order, promise, exitCode, file>>

InitChapters ==
    /\ pc = "parseChapters"
    /\ \E body \in Forests(MaxNodes, {"div"}, DocIds), t \in Tocs(MaxToc),
          present \in BOOLEAN :
        /\ Len(Elements(body)) + Len(t) <= MaxTotal
        /\ ~present => t = <<>>
        /\ src = (IF present THEN <<TocDiv>> ELSE <<>>) \o body
        /\ toc = t
    /\ html = src
    /\ htmlSet = TRUE
    /\ chap = <<>>
    /\ stack = <<>>
    /\ chapters = <<>>
    /\ readme = <<>>
    /\ order = <<>>
    /\ promise = "resolved"
    /\ exitCode = 0
    /\ file = <<>>

NextChapters ==
    \/ ParseChaptersBegin
    \/ ParseListItem
    \/ ParseListReturn
    \/ ParseListExtract
    \/ ParseChaptersFlatten
    \/ ParseChaptersReadme
    \/ SetTitlesId

Spec == InitChapters /\ [][NextChapters]_vars

----------------------------------------------------------------------------
(* Properties of parseChapters *)

Count(seq, x) == Cardinality({i \in DOMAIN seq : seq[i] = x})

Labels(f) == [i \in DOMAIN Elements(f) |-> Elements(f)[i].n]

RECURSIVE Contents(_)
Contents(list) ==
    IF list = <<>> THEN <<>>
    ELSE (IF Head(list) = 0 THEN readme ELSE chap[Head(list)].content)
            \o Contents(Tail(list))

Body == Remove(src, Sel("div", "toc"))

\* li d lies in a list nested (at any depth) under li a
TocDescendant(d, a) ==
    /\ a < d
    /\ \A k \in (a + 1)..d : toc[k].depth > toc[a].depth

Extracted(c) == \E i \in DOMAIN order : order[i] = c

HasId(f, id) == \E i \in DOMAIN Elements(f) : Elements(f)[i].id = id /\ id # ""

\* C1: once parseChapters is done, every element of the document without its
\* div.toc occurs exactly once in the chapters' contents and the Readme's
\* content taken together.
C1_EveryElementOwnedOnce ==
    pc = "done" =>
        \A i \in DOMAIN Labels(Body) :
            Count(Labels(Contents(chapters)), Labels(Body)[i]) = 1

\* C2: a chapter's content is extracted only after the content of every
\* chapter of the lists nested under its TOC entry, and the content it holds
\* has no element carrying the anchor id of one of its children.
C2_ChildrenExtractedFirst ==
    /\ \A i \in DOMAIN order : \A d \in DOMAIN toc :
          TocDescendant(d, chap[order[i]].li) =>
              \E j \in 1..(i - 1) : chap[order[j]].li = d
    /\ \A c \in DOMAIN chap : \A k \in DOMAIN chap :
          (Extracted(c) /\ chap[k].parent = c) =>
              ~HasId(chap[c].content, chap[k].titleId)

\* C2 witness: a parent and its child both received content, and the
\* child's element lay inside the parent's element in the source document.
C2_Witness ==
    /\ pc = "done"
    /\ \E c \in DOMAIN chap : \E k \in DOMAIN chap :
        /\ chap[k].parent = c
        /\ chap[c].content # <<>>
        /\ chap[k].content # <<>>
        /\ \E i \in DOMAIN Select(src, GetChapterSelector(chap[c])) :
              HasId(Select(src, GetChapterSelector(chap[c]))[i].kids, chap[k].titleId)

Missing == pc = "extract" /\ Select(html, GetChapterSelector(chap[Top.cur])) = <<>>

\* C4: extracting a chapter whose anchor id matches no element gives it
\* empty content, leaves the document as it is and moves on to the next
\* list item as any extraction does; the run then ends with one chapter
\* created and extracted per TOC entry.
C4_MissingAnchorSkipped ==
    /\ [][Missing =>
            /\ pc' = "each"
            /\ html' = html
            /\ chap'[Top.cur].content = <<>>
            /\ order' = Append(order, Top.cur)
            /\ stack'[Len(stack)].chapters = Append(Top.chapters, Top.cur)
            /\ stack'[Len(stack)].i = Top.i + 1]_vars
    /\ [](pc = "done" =>
            /\ Len(chap) = Len(TopItems(src, toc)) + Cardinality({k \in DOMAIN toc : toc[k].depth > 0})
            /\ \A c \in DOMAIN chap : Extracted(c))

\* C4 witness: an entry without anchor was passed, and a later sibling and
\* the parent of that entry still received their elements.
C4_Witness ==
    /\ pc = "done"
    /\ \E c \in DOMAIN chap :
        /\ chap[c].titleId = ""
        /\ chap[c].content = <<>>
        /\ chap[c].next # 0
        /\ chap[chap[c].next].content # <<>>
        /\ chap[c].parent # 0
        /\ chap[chap[c].parent].content # <<>>

Parsed == pc \in {"flatten", "readme", "setTitlesId", "done"}

RECURSIVE ChildrenOf(_, _)
ChildrenOf(p, c) ==
    IF c > Len(chap) THEN <<>>
    ELSE (IF chap[c].parent = p THEN <<c>> ELSE <<>>) \o ChildrenOf(p, c + 1)

Chain(list, p) ==
    \A i \in DOMAIN list :
        /\ chap[list[i]].parent = p
        /\ chap[list[i]].previous = (IF i = 1 THEN 0 ELSE list[i - 1])
        /\ chap[list[i]].next = (IF i = Len(list) THEN 0 ELSE list[i + 1])
        /\ i < Len(list) => chap[chap[list[i]].next].previous = list[i]

\* C7: the list parseList returns for the top level and the list it stores
\* as each chapter's children are doubly linked in document order, the
\* first without previous, the last without next, all of one parent.
C7_SiblingChain ==
    /\ pc = "flatten" => chapters = ChildrenOf(0, 1)
    /\ Parsed => Chain(ChildrenOf(0, 1), 0)
    /\ \A p \in DOMAIN chap :
          /\ chap[p].children # <<>> => chap[p].children = ChildrenOf(p, 1)
          /\ Chain(chap[p].children, p)

\* C7 witness: a nested list of two linked siblings.
C7_Witness ==
    /\ pc = "done"
    /\ \E p \in DOMAIN chap :
        /\ Len(chap[p].children) = 2
        /\ chap[chap[p].children[1]].next = chap[p].children[2]

\* C8: after parseChapters this.chapters is the Readme followed by one
\* chapter per TOC entry in pre-order, which is the document order of the
\* entries; without entries it is the Readme alone.
C8_PreOrder ==
    pc \in {"setTitlesId", "done"} =>
        /\ chapters[1] = 0
        /\ Len(chapters) = 1 + (IF TopItems(src, toc) = <<>> THEN 0 ELSE Len(toc))
        /\ \A k \in 2..Len(chapters) :
              chapters[k] # 0 /\ chap[chapters[k]].li = k - 1

\* C8 witness: a chapter with a child, followed by a later sibling.
C8_Witness ==
    /\ pc = "done"
    /\ Len(chapters) = 4
    /\ chap[2].parent = 1
    /\ chap[3].parent = 0

----------------------------------------------------------------------------
(* processHTML *)

ElemKids(x) == SelectSeq(x.kids, LAMBDA k : k.tag # "#text")

\* white space outside ASCII, by code point
NonAsciiSpace ==
    {"U+00A0", "U+FEFF", "U+1680", "U+2000", "U+2001", "U+2002", "U+2003",
     "U+2004", "U+2005", "U+2006", "U+2007", "U+2008", "U+2009", "U+200A",
     "U+2028", "U+2029", "U+202F", "U+205F", "U+3000"}

\* the characters String.prototype.trim removes: WhiteSpace and
\* LineTerminator of ECMAScript
IsSpace(c) == c \in {" ", "\n", "\t", "\r", "\f", "U+000B"} \cup NonAsciiSpace

\* .html() writes the text of a node with the markup characters and every
\* character outside ASCII as an entity
EncodeXML(cs) ==
    [i \in DOMAIN cs |->
        [c |-> cs[i], entity |-> cs[i] \in {"&", "<", ">"} \cup NonAsciiSpace]]

\* the text a parsed string of characters and entities stands for
DecodeXML(es) == [i \in DOMAIN es |-> es[i].c]

\* String.prototype.trim, on the serialised text: an entity is no white space
RECURSIVE TrimLeft(_)
TrimLeft(es) ==
    IF es # <<>> /\ ~Head(es).entity /\ IsSpace(Head(es).c)
    THEN TrimLeft(Tail(es)) ELSE es

RECURSIVE TrimRight(_)
TrimRight(es) ==
    IF es # <<>> /\ ~es[Len(es)].entity /\ IsSpace(es[Len(es)].c)
    THEN TrimRight(SubSeq(es, 1, Len(es) - 1)) ELSE es

\* .html().trim() and the parse of $code.html(..): white space goes from
\* the serialised text of a leading and of a trailing text node
TrimInner(kids) ==
    LET l == IF kids # <<>> /\ kids[1].tag = "#text"
             THEN [kids EXCEPT ![1].text = DecodeXML(TrimLeft(EncodeXML(@)))] ELSE kids
        r == IF l # <<>> /\ l[Len(l)].tag = "#text"
             THEN [l EXCEPT ![Len(l)].text = DecodeXML(TrimRight(EncodeXML(@)))] ELSE l
    IN Html(r)

\* an element the code creates with $('<tag></tag>')
Created(tag, id, kids) == Node(0, tag, "", id, <<>>, kids)

\* lines 246-253: null.trim() throws for a .literallayout without <p>
LiteralLayoutThrows(f) ==
    \E i \in DOMAIN Select(f, Sel("*", "literallayout")) :
        Select(Select(f, Sel("*", "literallayout"))[i].kids, Sel("p", "")) = <<>>

RECURSIVE LiteralLayoutRule(_)
LiteralLayoutRule(f) ==
    IF f = <<>> THEN <<>>
    ELSE LET x == Head(f) IN
         (IF Matches(x, Sel("*", "literallayout"))
          THEN <<Created("pre", "",
                    <<Created("code", "",
                        TrimInner(Select(x.kids, Sel("p", ""))[1].kids))>>)>>
          ELSE <<[x EXCEPT !.kids = LiteralLayoutRule(x.kids)]>>)
            \o LiteralLayoutRule(Tail(f))

ListingSel == Sel("pre", "programlisting") \cup Sel("pre", "screen")

\* lines 256-261
RECURSIVE ProgramListingRule(_)
ProgramListingRule(f) ==
    IF f = <<>> THEN <<>>
    ELSE LET x == Head(f) IN
         (IF Matches(x, ListingSel)
          THEN <<[x EXCEPT !.kids = <<Created("code", "", x.kids)>>]>>
          ELSE <<[x EXCEPT !.kids = ProgramListingRule(x.kids)]>>)
            \o ProgramListingRule(Tail(f))

\* $divTitle.replaceWith($h6)
RECURSIVE ReplaceTitles(_, _)
ReplaceTitles(f, h6) ==
    IF f = <<>> THEN <<>>
    ELSE LET x == Head(f) IN
         (IF Matches(x, Sel("div", "example-title")) THEN <<h6>>
          ELSE <<[x EXCEPT !.kids = ReplaceTitles(x.kids, h6)]>>)
            \o ReplaceTitles(Tail(f), h6)

\* lines 264-278: $h6.html(null) throws for a div.example without
\* div.example-title
ExampleThrows(f) ==
    \E i \in DOMAIN Select(f, Sel("div", "example")) :
        Select(Select(f, Sel("div", "example"))[i].kids,
               Sel("div", "example-title")) = <<>>

\* (examples do not nest, and hold one title)
RECURSIVE ExampleRule(_)
ExampleRule(f) ==
    IF f = <<>> THEN <<>>
    ELSE LET x == Head(f) IN
         (IF Matches(x, Sel("div", "example"))
          THEN LET title == Select(x.kids, Sel("div", "example-title"))[1]
                   h6 == Created("h6", x.id, title.kids)
               IN <<[x EXCEPT !.id = "", !.kids = ReplaceTitles(x.kids, h6)]>>
          ELSE <<[x EXCEPT !.kids = ExampleRule(x.kids)]>>)
            \o ExampleRule(Tail(f))

FootnoteRefSel == Sel("a", "footnote") \cup Sel("a", "footnoteref")

\* the footnote reference rule without the test that the child is a <sup>
RECURSIVE FootnoteRefRuleAnyChild(_)
FootnoteRefRuleAnyChild(f) ==
    IF f = <<>> THEN <<>>
    ELSE LET x == Head(f) IN
         (IF Matches(x, FootnoteRefSel) /\ Len(ElemKids(x)) = 1
          THEN LET sup == ElemKids(x)[1] IN
               <<[sup EXCEPT !.kids = <<[x EXCEPT !.kids = sup.kids]>>]>>
          ELSE <<[x EXCEPT !.kids = FootnoteRefRuleAnyChild(x.kids)]>>)
            \o FootnoteRefRuleAnyChild(Tail(f))

OnlyChildIsSup(x) == Len(ElemKids(x)) = 1 /\ ElemKids(x)[1].tag = "sup"

\* lines 281-303: a copy of the <sup> takes the place of the link
\* (insertBefore clones), the link takes a copy of its content and becomes
\* its only child. A footnote link inside the <sup> is visited by .each in
\* the removed original: its copy in the document stays as it was.
RECURSIVE FootnoteRefRule(_)
FootnoteRefRule(f) ==
    IF f = <<>> THEN <<>>
    ELSE LET x == Head(f) IN
         (IF /\ Matches(x, FootnoteRefSel)
             /\ Len(ElemKids(x)) = 1
             /\ ElemKids(x)[1].tag = "sup"
          THEN LET sup == ElemKids(x)[1] IN
               <<[sup EXCEPT !.kids = <<[x EXCEPT !.kids = sup.kids]>>]>>
          ELSE <<[x EXCEPT !.kids = FootnoteRefRule(x.kids)]>>)
            \o FootnoteRefRule(Tail(f))

Arrow == <<"&#8593;">>

\* lines 306-328 for one div.footnote (its <p> lies in neither its first
\* <a> nor its first <sup>)
FootnoteBody(el) ==
    LET K == el.kids
        ps == PathsFrom(K, 1, Sel("p", ""), <<>>)
        as == PathsFrom(K, 1, Sel("a", ""), <<>>)
        ss == PathsFrom(K, 1, Sel("sup", ""), <<>>)
        hasP == ps # <<>>
        hasA == as # <<>>
        hasS == ss # <<>>
        \* $sup.attr('id', id): a getter when the div has no id
        K1 == IF hasS /\ el.id # "" THEN SetIdAt(K, Head(ss), el.id) ELSE K
        \* $a.remove()
        K2 == IF hasA THEN RemoveAt(K1, Head(as)) ELSE K1
        supGone == hasS /\ hasA /\ IsPrefix(Head(as), Head(ss))
        pS == IF hasA THEN Shift(Head(ss), Head(as)) ELSE Head(ss)
        pP == IF hasA THEN Shift(Head(ps), Head(as)) ELSE Head(ps)
        sup == IF supGone THEN NodeAt(K1, Head(ss)) ELSE NodeAt(K2, pS)
        a == [NodeAt(K1, Head(as)) EXCEPT !.kids = <<Text(0, Arrow)>>]
        \* $sup.html($sup.html() + $p.html()), then $sup.append($a)
        newSup == [sup EXCEPT !.kids =
                      sup.kids
                        \o (IF hasP THEN NodeAt(K2, pP).kids
                            ELSE <<Text(0, <<"n", "u", "l", "l">>)>>)
                        \o (IF hasA THEN <<a>> ELSE <<>>)]
        K3 == IF hasP /\ hasS
              THEN LET withP == ReplaceAt(K2, pP,
                                   [NodeAt(K2, pP) EXCEPT !.kids = <<newSup>>])
                   IN IF supGone \/ IsPrefix(pP, pS) THEN withP
                      ELSE RemoveAt(withP, pS)
              ELSE IF hasP
              THEN ReplaceAt(K2, pP, [NodeAt(K2, pP) EXCEPT !.kids = <<>>])
              ELSE IF hasS /\ ~supGone THEN ReplaceAt(K2, pS, newSup)
              ELSE K2
    IN [el EXCEPT !.id = "", !.kids = K3]

\* (footnote bodies do not nest)
RECURSIVE FootnoteRule(_)
FootnoteRule(f) ==
    IF f = <<>> THEN <<>>
    ELSE LET x == Head(f) IN
         (IF Matches(x, Sel("div", "footnote")) THEN <<FootnoteBody(x)>>
          ELSE <<[x EXCEPT !.kids = FootnoteRule(x.kids)]>>)
            \o FootnoteRule(Tail(f))

\* lines 241-331
ProcessHTML(h) ==
    IF LiteralLayoutThrows(h) THEN [threw |-> TRUE, html |-> <<>>]
    ELSE LET h2 == ProgramListingRule(LiteralLayoutRule(h)) IN
         IF ExampleThrows(h2) THEN [threw |-> TRUE, html |-> <<>>]
         ELSE [threw |-> FALSE,
               html |-> Html(FootnoteRule(FootnoteRefRule(ExampleRule(h2))))]

----------------------------------------------------------------------------
(* Input documents of processHTML: sequences of at most MaxIdioms of the    *)
(* constructs the DocBook stylesheet emits, well formed and malformed.      *)

MaxIdioms == 2

El(n, tag, cls, id, kids) == Node(n, tag, cls, id, <<>>, kids)

IdiomNames ==
    {"para", "literal", "literalNoP", "listing", "screen", "listingCode",
     "example", "exampleNoTitle", "ref", "refEmpty", "refTwo", "refSpan",
     "refText", "refNested", "note", "noteNoSup", "noteNoP", "noteNoA", "noteFlat"}

Idiom(name, b) ==
    CASE name = "para" ->
            El(b, "p", "", "", <<Text(b + 1, <<"t">>)>>)
      [] name = "literal" ->
            El(b, "div", "literallayout", "",
               <<El(b + 1, "p", "", "", <<Text(b + 2, <<"\f", " ", "U+00A0", "x", "U+3000", "\r", "\n">>)>>)>>)
      [] name = "literalNoP" ->
            El(b, "div", "literallayout", "", <<Text(b + 1, <<"x">>)>>)
      [] name = "listing" ->
            El(b, "pre", "programlisting", "", <<Text(b + 1, <<"x">>)>>)
      [] name = "screen" ->
            El(b, "pre", "screen", "", <<Text(b + 1, <<"x">>)>>)
      [] name = "listingCode" ->
            El(b, "pre", "programlisting", "",
               <<El(b + 1, "code", "", "", <<Text(b + 2, <<"x">>)>>)>>)
      [] name = "example" ->
            El(b, "div", "example", "e",
               <<El(b + 1, "div", "example-title", "", <<Text(b + 2, <<"T">>)>>),
                 El(b + 3, "p", "", "", <<Text(b + 4, <<"B">>)>>)>>)
      [] name = "exampleNoTitle" ->
            El(b, "div", "example", "e",
               <<El(b + 1, "p", "", "", <<Text(b + 2, <<"B">>)>>)>>)
      [] name = "ref" ->
            El(b, "p", "", "",
               <<El(b + 1, "a", "footnote", "r",
                    <<El(b + 2, "sup", "footnote", "", <<Text(b + 3, <<"3">>)>>)>>)>>)
      [] name = "refEmpty" ->
            El(b, "p", "", "",
               <<El(b + 1, "a", "footnote", "", <<Text(b + 2, <<"3">>)>>)>>)
      [] name = "refTwo" ->
            El(b, "p", "", "",
               <<El(b + 1, "a", "footnote", "",
                    <<El(b + 2, "sup", "", "", <<Text(b + 3, <<"3">>)>>),
                      El(b + 4, "span", "", "", <<>>)>>)>>)
      [] name = "refSpan" ->
            El(b, "p", "", "",
               <<El(b + 1, "a", "footnoteref", "",
                    <<El(b + 2, "span", "", "", <<Text(b + 3, <<"3">>)>>)>>)>>)
      [] name = "refText" ->
            El(b, "p", "", "",
               <<El(b + 1, "a", "footnoteref", "",
                    <<Text(b + 2, <<"s">>),
                      El(b + 3, "sup", "", "", <<Text(b + 4, <<"3">>)>>)>>)>>)
      [] name = "refNested" ->
            El(b, "p", "", "",
               <<El(b + 1, "a", "footnote", "",
                    <<El(b + 2, "sup", "", "",
                         <<El(b + 3, "a", "footnote", "",
                              <<El(b + 4, "sup", "", "", <<Text(b + 5, <<"1">>)>>)>>)>>)>>)>>)
      [] name = "note" ->
            El(b, "div", "footnote", "f",
               <<El(b + 1, "p", "", "",
                    <<El(b + 2, "a", "para", "",
                         <<El(b + 3, "sup", "para", "", <<Text(b + 4, <<"1">>)>>)>>),
                      Text(b + 5, <<"N">>)>>)>>)
      [] name = "noteNoSup" ->
            El(b, "div", "footnote", "f",
               <<El(b + 1, "p", "", "",
                    <<El(b + 2, "a", "para", "", <<Text(b + 3, <<"1">>)>>),
                      Text(b + 4, <<"N">>)>>)>>)
      [] name = "noteNoP" ->
            El(b, "div", "footnote", "f",
               <<El(b + 1, "sup", "", "", <<Text(b + 2, <<"1">>)>>),
                 El(b + 3, "a", "para", "", <<Text(b + 4, <<"x">>)>>)>>)
      [] name = "noteNoA" ->
            El(b, "div", "footnote", "f",
               <<El(b + 1, "p", "", "",
                    <<El(b + 2, "sup", "", "", <<Text(b + 3, <<"1">>)>>),
                      Text(b + 4, <<"N">>)>>)>>)
      [] name = "noteFlat" ->
            El(b, "div", "footnote", "f",
               <<El(b + 1, "p", "", "", <<Text(b + 2, <<"N">>)>>),
                 El(b + 3, "a", "para", "", <<Text(b + 4, <<"x">>)>>),
                 El(b + 5, "sup", "", "", <<Text(b + 6, <<"1">>)>>)>>)

IdiomDocs(max) ==
    UNION {{[k \in 1..n |-> Idiom(names[k], 10 * k)] :
                names \in [1..n -> IdiomNames]} :
           n \in 0..max}

----------------------------------------------------------------------------
(* processHTML, rule by rule; html holds the document being rewritten *)

LiteralLayoutStep ==
    /\ pc = "literallayout"
    /\ IF LiteralLayoutThrows(html)
       THEN pc' = "threw" /\ UNCHANGED html
       ELSE pc' = "programlisting" /\ html' = LiteralLayoutRule(html)
    /\ UNCHANGED <<src, htmlSet, toc, chap, stack, chapters, readme, order,
                   promise, exitCode, file>>

ProgramListingStep ==
    /\ pc = "programlisting"
    /\ html' = ProgramListingRule(html)
    /\ pc' = "example"
    /\ UNCHANGED <<src, htmlSet, toc, chap, stack, chapters, readme, order,
                   promise, exitCode, file>>

ExampleStep ==
    /\ pc = "example"
    /\ IF ExampleThrows(html)
       THEN pc' = "threw" /\ UNCHANGED html
       ELSE pc' = "footnoteref" /\ html' = ExampleRule(html)
    /\ UNCHANGED <<src, htmlSet, toc, chap, stack, chapters, readme, order,
                   promise, exitCode, file>>

FootnoteRefStep ==
    /\ pc = "footnoteref"
    /\ html' = FootnoteRefRule(html)
    /\ pc' = "footnote"
    /\ UNCHANGED <<src, htmlSet, toc, chap, stack, chapters, readme, order,
                   promise, exitCode, file>>

\* the last rule and return $.html()
FootnoteStep ==
    /\ pc = "footnote"
    /\ html' = Html(FootnoteRule(html))
    /\ pc' = "returned"
    /\ UNCHANGED <<src, htmlSet, toc, chap, stack, chapters, readme, order,
                   promise, exitCode, file>>

InitNormalize ==
    /\ pc = "literallayout"
    /\ src \in IdiomDocs(MaxIdioms)
    /\ html = src
    /\ htmlSet = FALSE
    /\ toc = <<>>
    /\ chap = <<>>
    /\ stack = <<>>
    /\ chapters = <<>>
    /\ readme = <<>>
    /\ order = <<>>
    /\ promise = "pending"
    /\ exitCode = 0
    /\ file = <<>>

NextNormalize ==
    \/ LiteralLayoutStep
    \/ ProgramListingStep
    \/ ExampleStep
    \/ FootnoteRefStep
    \/ FootnoteStep

SpecNormalize == InitNormalize /\ [][NextNormalize]_vars

\* the rule-by-rule run and the function agree
StepsAgree ==
    /\ pc = "returned" => ProcessHTML(src) = [threw |-> FALSE, html |-> html]
    /\ pc = "threw" => ProcessHTML(src).threw


----------------------------------------------------------------------------
(* Properties of processHTML *)

HasDesc(x, S) == Select(x.kids, S) # <<>>

\* an element a rule matches that lacks a sub-element the rule expects
Malformed(x) ==
    \/ Matches(x, Sel("*", "literallayout")) /\ ~HasDesc(x, Sel("p", ""))
    \/ Matches(x, Sel("div", "example")) /\ ~HasDesc(x, Sel("div", "example-title"))
    \/ /\ Matches(x, Sel("div", "footnote"))
       /\ ~(HasDesc(x, Sel("p", "")) /\ HasDesc(x, Sel("a", "")) /\ HasDesc(x, Sel("sup", "")))

\* C5: no exception escapes processHTML, and an element that lacks the
\* sub-element its rule expects is in the returned document as it was in
\* the input.
C5_MalformedSkipped ==
    /\ pc # "threw"
    /\ pc = "returned" =>
          \A i \in DOMAIN Elements(src) :
              Malformed(Elements(src)[i]) =>
                  \E j \in DOMAIN Elements(html) : Elements(html)[j] = Elements(src)[i]

\* C6: applying the listing rule to the document it has just produced
\* changes nothing.
C6_ListingIdempotent ==
    pc = "example" => ProgramListingRule(html) = html

FootnoteRefPaths == PathsFrom(html, 1, FootnoteRefSel, <<>>)

\* no footnote reference link lies inside another
NoNestedRefs(f) ==
    \A i \in DOMAIN Select(f, FootnoteRefSel) :
        Select(Select(f, FootnoteRefSel)[i].kids, FootnoteRefSel) = <<>>

\* C9 as amended: on a document in which no footnote reference link lies
\* inside another the rule puts, in the place of every
\* footnote reference link whose only element child is a <sup>, that <sup>
\* holding the link alone, the link holding what the <sup> held; every
\* other footnote reference link is as it was.
C9_SupWrapsLink ==
    [][(pc = "footnoteref" /\ NoNestedRefs(html)) =>
        /\ \A i \in DOMAIN FootnoteRefPaths :
            LET p == FootnoteRefPaths[i]
                el == NodeAt(html, p)
                sup == ElemKids(el)[1]
            IN IF OnlyChildIsSup(el)
               THEN NodeAt(html', p) =
                        [sup EXCEPT !.kids = <<[el EXCEPT !.kids = sup.kids]>>]
               ELSE NodeAt(html', p) = el]_vars

\* C9 as stated: the <sup> holds the marker text followed by the link with
\* its label emptied.
C9_MarkerThenEmptyLink ==
    [][(pc = "footnoteref" /\ NoNestedRefs(html)) =>
        /\ \A i \in DOMAIN FootnoteRefPaths :
            LET p == FootnoteRefPaths[i]
                el == NodeAt(html, p)
                sup == ElemKids(el)[1]
            IN IF OnlyChildIsSup(el)
               THEN NodeAt(html', p) =
                        [sup EXCEPT !.kids = sup.kids \o <<[el EXCEPT !.kids = <<>>]>>]
               ELSE NodeAt(html', p) = el]_vars

\* C9 witness: the rule has run on a document with a link it rewrote and a
\* link with two children it left alone.
C9_Witness ==
    /\ pc = "footnote"
    /\ \E i \in DOMAIN Elements(html) :
          LET x == Elements(html)[i] IN
          /\ x.tag = "sup"
          /\ Len(x.kids) = 1
          /\ Matches(x.kids[1], FootnoteRefSel)
          /\ x.kids[1].kids # <<>>
    /\ \E i \in DOMAIN Elements(html) :
          LET x == Elements(html)[i] IN
          Matches(x, FootnoteRefSel) /\ Len(ElemKids(x)) = 2

----------------------------------------------------------------------------
(* toHTML *)

ExitCodes == {0, 1}

\* the file xsltproc writes: an HTML document around the given body
Document(body) ==
    <<El(0, "html", "", "",
         <<El(0, "head", "", "", <<>>), El(0, "body", "", "", body)>>)>>

Files ==
    {[readable |-> FALSE, data |-> <<>>]}
        \cup {[readable |-> TRUE, data |-> Document(b)] : b \in IdiomDocs(MaxIdioms)}

\* $('body').html()
BodyHtml(data) == Select(data, Sel("body", ""))[1].kids

\* d.reject / d.resolve: a settled promise stays as it is
Settle(p, to) == IF p = "pending" THEN to ELSE p

\* lines 40-45: the 'close' handler, up to the call of fs.readFile
OnClose ==
    /\ pc = "spawned"
    /\ promise' = IF exitCode # 0 THEN Settle(promise, "rejected") ELSE promise
    /\ pc' = "readFile"
    /\ UNCHANGED <<src, html, htmlSet, toc, chap, stack, chapters, readme, order,
                   exitCode, file>>

\* lines 45-59: the callback of fs.readFile. After a read error data is
\* undefined and cheerio.load throws. fs.unlink is called without callback
\* (line 55): a runtime that requires one throws there, after this._html
\* is assigned and before d.resolve(); an older one goes on.
OnReadFile ==
    /\ pc = "readFile"
    /\ IF ~file.readable
       THEN /\ promise' = Settle(promise, "rejected")
            /\ pc' = "threw"
            /\ UNCHANGED <<html, htmlSet>>
       ELSE LET r == ProcessHTML(BodyHtml(file.data)) IN
            IF r.threw
            THEN /\ pc' = "threw"
                 /\ UNCHANGED <<html, htmlSet, promise>>
            ELSE /\ html' = r.html
                 /\ htmlSet' = TRUE
                 /\ \E callbackRequired \in BOOLEAN :
                       IF callbackRequired
                       THEN pc' = "threw" /\ UNCHANGED promise
                       ELSE /\ promise' = Settle(promise, "resolved")
                            /\ pc' = "converted"
    /\ UNCHANGED <<src, toc, chap, stack, chapters, readme, order, exitCode, file>>

InitToHTML ==
    /\ pc = "spawned"
    /\ exitCode \in ExitCodes
    /\ file \in Files
    /\ src = file.data
    /\ html = <<>>
    /\ htmlSet = FALSE
    /\ toc = <<>>
    /\ chap = <<>>
    /\ stack = <<>>
    /\ chapters = <<>>
    /\ readme = <<>>
    /\ order = <<>>
    /\ promise = "pending"

NextToHTML ==
    \/ OnClose
    \/ OnReadFile

SpecToHTML == InitToHTML /\ [][NextToHTML]_vars

\* C3: once xsltproc has closed with a non-zero exit code the promise is
\* rejected, the file is not read, processHTML is not run and this._html is
\* not assigned; after a failed read the promise is rejected and this._html
\* is not assigned.
C3_FailureIsFatal ==
    /\ (exitCode # 0 /\ pc # "spawned") =>
          /\ promise = "rejected"
          /\ pc \notin {"readFile", "converted"}
          /\ ~htmlSet
    /\ (~file.readable /\ pc \notin {"spawned", "readFile"}) =>
          /\ promise = "rejected"
          /\ ~htmlSet

----------------------------------------------------------------------------
(* setTitlesId on the content of one chapter *)

MaxContent == 3

TitleTags == {"section", "h1", "p"}

InitTitles ==
    /\ pc = "setTitlesId"
    /\ src \in Forests(MaxContent, TitleTags, DocIds)
    /\ html = <<>>
    /\ htmlSet = TRUE
    /\ toc = <<[depth |-> 0, href |-> NoHref]>>
    /\ chap = <<[NewChapter(1) EXCEPT !.num = 1, !.content = src]>>
    /\ stack = <<>>
    /\ chapters = <<0, 1>>
    /\ readme = AddTitleToContent(<<>>, DocumentTitle)
    /\ order = <<1>>
    /\ promise = "resolved"
    /\ exitCode = 0
    /\ file = <<>>

NextTitles == SetTitlesId

SpecTitles == InitTitles /\ [][NextTitles]_vars

\* C10: every id a <section> of the content carried before setTitlesId is
\* carried by some element of the content after it.
C10_AnchorKept ==
    pc = "done" =>
        \A i \in DOMAIN Elements(src) :
            (Elements(src)[i].tag = "section" /\ Elements(src)[i].id # "") =>
                HasId(chap[1].content, Elements(src)[i].id)

====
